---------------------------- MODULE Spec2Model ----------------------------
(***************************************************************************)
(* A model of the Thoughtful AI support agent (src/agent.py, src/data.py): *)
(* the knowledge base and the indexes built from it, the facet matcher,    *)
(* the embedding search, the intent classifier, the response rotation and  *)
(* the cascade of ThoughtfulAIAgent.respond.                               *)
(*                                                                         *)
(* Strings are TLA+ strings, i.e. sequences of characters: Len, SubSeq and *)
(* \o act on them, and the Python string methods the code uses (lower,     *)
(* strip, split, the substring test "in") are operators computed character *)
(* by character.  A float score is an integer number of hundredths (0.55   *)
(* is 55).  An Optional value is None (the empty tuple) or Some(v).        *)
(***************************************************************************)
EXTENDS Integers, Sequences, FiniteSets, TLC

----------------------------------------------------------------------------
(* Python values *)

None == <<>>

Some(v) == <<v>>

\* Python truthiness of an Optional[str]: None and "" are both falsy.
\* "is not None" in the place of the truth test.
TruthyNotNone(opt) == opt # None

Truthy(opt) == opt # None /\ opt[1] # ""

----------------------------------------------------------------------------
(* Python string methods *)

Char(s, i) == SubSeq(s, i, i)

\* The ASCII characters str.strip() and str.split() treat as whitespace.
Whitespace == {" ", "\t", "\n", "\r"}

UpperLetters == "ABCDEFGHIJKLMNOPQRSTUVWXYZ"

LowerLetters == "abcdefghijklmnopqrstuvwxyz"

LowerChar(c) ==
  IF \E i \in 1..Len(UpperLetters) : Char(UpperLetters, i) = c
  THEN Char(LowerLetters, CHOOSE i \in 1..Len(UpperLetters) : Char(UpperLetters, i) = c)
  ELSE c

\* s.lower()
RECURSIVE Lower(_)
Lower(s) ==
  IF Len(s) = 0 THEN ""
  ELSE IF Len(s) = 1 THEN LowerChar(s)
  ELSE Lower(SubSeq(s, 1, Len(s) \div 2)) \o Lower(SubSeq(s, Len(s) \div 2 + 1, Len(s)))

\* The positions of s that hold a non-whitespace character.
Inked(s) == {i \in 1..Len(s) : Char(s, i) \notin Whitespace}

SpanOf(s, inked) ==
  IF inked = {} THEN ""
  ELSE SubSeq(s, CHOOSE i \in inked : \A j \in inked : i <= j,
                 CHOOSE i \in inked : \A j \in inked : j <= i)

\* A strip that takes off blanks only, as s.strip(" ") would.
StripBlanks(s) == SpanOf(s, {i \in 1..Len(s) : Char(s, i) # " "})

\* s.strip(): s without its leading and trailing whitespace.
Strip(s) == SpanOf(s, Inked(s))

\* The word of s that starts at position from: it runs up to the next
\* whitespace character or the end of s.
WordAt(s, from, inked) ==
  SubSeq(s, from, CHOOSE to \in from..Len(s) :
                    /\ \A k \in from..to : k \in inked
                    /\ (to + 1) \notin inked)

WordsOf(s, inked) ==
  {WordAt(s, from, inked) : from \in {i \in inked : (i - 1) \notin inked}}

\* set(s.split()): the maximal runs of non-whitespace characters of s.
Split(s) == WordsOf(s, Inked(s))

\* p in s
Contains(p, s) ==
  \E i \in 1..(Len(s) - Len(p) + 1) : SubSeq(s, i, i + Len(p) - 1) = p

----------------------------------------------------------------------------
(* data.py: the knowledge base *)

PREDEFINED_QA ==
  <<
     [question |-> "What does the eligibility verification agent (EVA) do?",
      answer |-> "EVA automates the process of verifying a patient's "
                 \o "eligibility and benefits information in real-time, "
                 \o "eliminating manual data entry errors and reducing claim "
                 \o "rejections.",
      variations |-> <<"What does EVA do?",
                       "What is EVA?",
                       "Tell me about EVA",
                       "Explain EVA",
                       "What is the eligibility verification agent?",
                       "How does EVA work?">>,
      facets |-> <<"verify eligibility",
                   "check patient eligibility",
                   "eligibility verification",
                   "benefits verification",
                   "check insurance eligibility",
                   "verify benefits",
                   "eligibility checks",
                   "insurance verification",
                   "patient eligibility",
                   "real-time eligibility">>],
     [question |-> "What does the claims processing agent (CAM) do?",
      answer |-> "CAM streamlines the submission and management of claims, "
                 \o "improving accuracy, reducing manual intervention, and "
                 \o "accelerating reimbursements.",
      variations |-> <<"What is CAM?",
                       "Tell me about CAM",
                       "Explain CAM",
                       "What is the claims processing agent?",
                       "How does CAM work?",
                       "What does CAM do?">>,
      facets |-> <<"process claims",
                   "claims submission",
                   "submit claims",
                   "manage claims",
                   "claims management",
                   "handle claims",
                   "claims accuracy",
                   "accelerate reimbursements",
                   "claims processing",
                   "claim rejections",
                   "denied claims">>],
     [question |-> "How does the payment posting agent (PHIL) work?",
      answer |-> "PHIL automates the posting of payments to patient accounts, "
                 \o "ensuring fast, accurate reconciliation of payments and "
                 \o "reducing administrative burden.",
      variations |-> <<"What is PHIL?",
                       "Tell me about PHIL",
                       "Explain PHIL",
                       "What is the payment posting agent?",
                       "What does PHIL do?",
                       "How does PHIL work?">>,
      facets |-> <<"post payments",
                   "payment posting",
                   "patient payments",
                   "payment reconciliation",
                   "reconcile payments",
                   "handle payments",
                   "payment processing",
                   "account reconciliation",
                   "payment accuracy",
                   "administrative burden">>],
     [question |-> "Tell me about Thoughtful AI's Agents.",
      answer |-> "Thoughtful AI provides a suite of AI-powered automation "
                 \o "agents designed to streamline healthcare processes. These "
                 \o "include Eligibility Verification (EVA), Claims Processing "
                 \o "(CAM), and Payment Posting (PHIL), among others.",
      variations |-> <<"What are Thoughtful AI agents?",
                       "What agents do you have?",
                       "Tell me about Thoughtful AI",
                       "What is Thoughtful AI?",
                       "What products do you offer?",
                       "What services does Thoughtful AI provide?",
                       "List your agents",
                       "What AI agents are available?">>,
      facets |-> <<"healthcare automation",
                   "ai agents",
                   "automation solutions",
                   "healthcare ai",
                   "streamline processes",
                   "reduce manual work",
                   "your solutions",
                   "your products",
                   "what do you offer">>],
     [question |-> "What are the benefits of using Thoughtful AI's agents?",
      answer |-> "Using Thoughtful AI's Agents can significantly reduce "
                 \o "administrative costs, improve operational efficiency, and "
                 \o "reduce errors in critical processes like claims management "
                 \o "and payment posting.",
      variations |-> <<"What are the benefits?",
                       "Why should I use Thoughtful AI?",
                       "What are the advantages?",
                       "How can Thoughtful AI help me?",
                       "What value do your agents provide?",
                       "Tell me about the benefits",
                       "Why choose Thoughtful AI?">>,
      facets |-> <<"reduce costs",
                   "save money",
                   "operational efficiency",
                   "reduce errors",
                   "administrative costs",
                   "improve accuracy",
                   "faster processing",
                   "save time",
                   "return on investment",
                   "roi">>]
  >>

----------------------------------------------------------------------------
(* data.py: the indexes built from the knowledge base (lines 138-165) *)

RECURSIVE Flatten(_)
Flatten(seqs) ==
  IF seqs = <<>> THEN <<>> ELSE Head(seqs) \o Flatten(Tail(seqs))

\* QUESTIONS: per topic the canonical question, then its variations.
QUESTIONS ==
  Flatten([t \in 1..Len(PREDEFINED_QA) |->
             <<PREDEFINED_QA[t].question>> \o PREDEFINED_QA[t].variations])

\* The (key, answer) assignments of the loop, in execution order.
QuestionWrites ==
  Flatten([t \in 1..Len(PREDEFINED_QA) |->
             [k \in 1..(1 + Len(PREDEFINED_QA[t].variations)) |->
                [key |-> (<<PREDEFINED_QA[t].question>> \o PREDEFINED_QA[t].variations)[k],
                 answer |-> PREDEFINED_QA[t].answer]]])

\* The writes FACET_MAP[facet.lower()] = answer of the loop over a
\* knowledge base, in order.
FacetWritesOf(kb) ==
  Flatten([t \in 1..Len(kb) |->
             [k \in 1..Len(kb[t].facets) |->
                [key |-> Lower(kb[t].facets[k]), answer |-> kb[t].answer]]])

FacetWrites == FacetWritesOf(PREDEFINED_QA)

\* A dict as the sequence of its items.  d.setdefault(key, answer): a key
\* that is there keeps its answer.
DictSetDefault(d, key, answer) ==
  IF \E i \in 1..Len(d) : d[i].key = key THEN d
  ELSE Append(d, [key |-> key, answer |-> answer])

\* d[key] = answer: a key that is there keeps its place and takes the
\* new answer, a new key goes to the end.
DictSet(d, key, answer) ==
  IF \E i \in 1..Len(d) : d[i].key = key
  THEN [i \in 1..Len(d) |-> IF d[i].key = key THEN [key |-> key, answer |-> answer]
                                              ELSE d[i]]
  ELSE Append(d, [key |-> key, answer |-> answer])

\* A Python dict filled by d[key] = answer for each write in order: a key
\* keeps the position of its first write and the answer of its last one.
\* DictKeys is the key order, which is the order items() iterates in.
DictKeys(writes) ==
  LET first == {i \in 1..Len(writes) :
                  \A j \in 1..(i - 1) : writes[j].key # writes[i].key}
  IN [k \in 1..Cardinality(first) |->
        writes[CHOOSE i \in first :
                 Cardinality({j \in first : j < i}) = k - 1].key]

DictValues(writes) ==
  [key \in {writes[i].key : i \in 1..Len(writes)} |->
     writes[CHOOSE i \in 1..Len(writes) :
              /\ writes[i].key = key
              /\ \A j \in (i + 1)..Len(writes) : writes[j].key # key].answer]

ANSWER_MAP == DictValues(QuestionWrites)

ANSWERS == ANSWER_MAP

FACET_MAP == DictValues(FacetWrites)

\* FACET_MAP.items() iterates in insertion order.
FACET_KEYS == DictKeys(FacetWrites)

----------------------------------------------------------------------------
(* data.py: the response bank.  A template is written as the first 44      *)
(* printable ASCII characters of its text, which tell all 54 templates     *)
(* apart.                                                                  *)

GREETING_RESPONSES ==
  <<"Hello! Welcome to Thoughtful AI Support. I'm",
    "Hi there! Welcome to Thoughtful AI. I can te",
    "Hey! Thanks for reaching out to Thoughtful A",
    "Hello and welcome! I'm your Thoughtful AI su",
    "Hi! Great to meet you. I'm here to answer qu",
    "Welcome to Thoughtful AI! I'm your support a",
    "Hello! I'm your virtual assistant for Though",
    "Hey there! Ready to learn about Thoughtful A">>

HELP_RESPONSES ==
  <<"I can help you with questions about Thoughtf",
    "Here's what I can help you with: Our Agents:",
    "I'm your Thoughtful AI support specialist! I",
    "Great question! I'm designed to help with: U",
    "I can assist you with information about our",
    "Here's my expertise area: Healthcare Automat">>

FAREWELL_RESPONSES ==
  <<"You're welcome! Thanks for chatting with Tho",
    "Glad I could help! Feel free to come back if",
    "Thank you for reaching out! If you need more",
    "You're welcome! Hope you learned something u",
    "Thanks for chatting! If you have more questi",
    "Appreciate you stopping by! Reach out anytim",
    "You're welcome! Wishing you success with you",
    "Glad to assist! Come back anytime for questi">>

GRATITUDE_RESPONSES ==
  <<"You're very welcome! Happy to help with any",
    "My pleasure! Let me know if you need anythin",
    "Glad I could help! Feel free to ask if you w",
    "You're welcome! Thanks for your interest in",
    "Happy to assist! Is there anything else abou",
    "Anytime! I'm here whenever you need info abo",
    "You're most welcome! Excited to help you exp",
    "Glad to be of service! Reach out if you have">>

UNKNOWN_RESPONSES ==
  <<"I'm not sure about that. I specialize in Tho",
    "I don't have information on that topic. I'm",
    "That's outside my area of expertise. I focus",
    "Hmm, I don't know about that. But I can tell",
    "I wish I could help with that, but I'm speci",
    "That's not something I'm trained on. I'm you",
    "I don't have the answer to that, but I'd lov",
    "Sorry, that's beyond my knowledge base. I st",
    "I'm focused on healthcare automation at Thou",
    "That's a different topic than what I cover.">>

ACKNOWLEDGMENT_RESPONSES ==
  <<"Great! Let me know if you have any other que",
    "Got it! Feel free to ask if you want to lear",
    "Perfect! Is there anything else about Though",
    "Sounds good! I'm here if you need more info",
    "Alright! Don't hesitate to reach out if you",
    "Understood! Let me know if there's anything",
    "Excellent! I'm ready to help with any follow",
    "Cool! Feel free to dig deeper into any topic">>

CONFUSION_RESPONSES ==
  <<"I'm not quite sure I understand. Could you r",
    "Hmm, I didn't catch that. Try asking me abou",
    "I want to help, but I'm not sure what you're",
    "Could you try asking that a different way? I",
    "I'm a bit confused by that. But I can defini",
    "Not sure I got that. I'm designed to help wi">>

\* data.py: the keyword table the agent imports for intent detection.
INTENT_KEYWORDS ==
  [greeting       |-> <<"hi", "hello", "hey", "greetings", "howdy", "hiya", "yo",
                        "sup", "morning", "afternoon", "evening">>,
   help           |-> <<"help", "what can you do", "what do you do",
                        "capabilities", "what are you", "who are you",
                        "features", "functions", "assist">>,
   farewell       |-> <<"bye", "goodbye", "see you", "cya", "later", "exit", "quit">>,
   gratitude      |-> <<"thanks", "thank you", "thx", "ty", "appreciate",
                        "grateful", "cheers">>,
   acknowledgment |-> <<"ok", "okay", "cool", "great", "good", "nice", "perfect",
                        "sure", "alright">>,
   confusion      |-> <<"what", "huh", "confused", "don't understand",
                        "dont understand">>]

----------------------------------------------------------------------------
(* agent.py: configuration *)

\* SIMILARITY_THRESHOLD = 0.55
SIMILARITY_THRESHOLD == 55

\* The confidence respond reports for a facet match, 0.85.
FACET_CONFIDENCE == 85

\* The intents that have a rotation counter (__init__) and a response bank.
Intents ==
  {"greeting", "help", "farewell", "gratitude", "unknown", "acknowledgment", "confusion"}

----------------------------------------------------------------------------
(* agent.py: _init_openai_silently *)

\* What the process environment offers when the agent is constructed:
\* whether the openai package was importable, the value of OPENAI_API_KEY
\* (None when unset) and whether the OpenAI(...) constructor raises.
ApiKeys == {None, Some(""), Some("  "), Some("your_openai_api_key_here"), Some("test-api-key-12345")}

\* The environments: every combination of the three.
Environments ==
  [OPENAI_AVAILABLE : BOOLEAN, api_key : ApiKeys, constructor_raises : BOOLEAN]

\* The environments of a session: no key set, and a key the client accepts.
SessionEnvironments ==
  {[OPENAI_AVAILABLE |-> TRUE, api_key |-> None, constructor_raises |-> FALSE],
   [OPENAI_AVAILABLE |-> TRUE, api_key |-> Some("test-api-key-12345"),
    constructor_raises |-> FALSE]}

\* A key with the placeholder taken for a real one.
InitOpenAIAnyKey(OPENAI_AVAILABLE, api_key, constructor_raises) ==
  IF ~OPENAI_AVAILABLE THEN <<None, FALSE>>
  ELSE IF Truthy(api_key) /\ Strip(api_key[1]) # ""
       THEN IF constructor_raises THEN <<None, FALSE>>
            ELSE <<Some("OpenAI"), TRUE>>
       ELSE <<None, FALSE>>

\* The pair <<openai_client, openai_enabled>> after _init_openai_silently.
InitOpenAI(OPENAI_AVAILABLE, api_key, constructor_raises) ==
  IF ~OPENAI_AVAILABLE THEN <<None, FALSE>>
  ELSE IF Truthy(api_key) /\ Strip(api_key[1]) # ""
          /\ api_key[1] # "your_openai_api_key_here"
       THEN IF constructor_raises THEN <<None, FALSE>>
            ELSE <<Some("OpenAI"), TRUE>>
       ELSE <<None, FALSE>>

----------------------------------------------------------------------------
(* agent.py: _find_best_match *)

\* The cosine similarity of a unit vector with itself, 1.0.
MaxScore == 100

MaxOf(values) == CHOOSE x \in values : \A y \in values : y <= x

\* An index search that returns the last index holding the value.
LastIndexOf(similarities, top) ==
  CHOOSE i \in 1..Len(similarities) :
    /\ similarities[i] = top
    /\ \A j \in (i + 1)..Len(similarities) : similarities[j] # top

FirstIndexOf(similarities, top) ==
  CHOOSE i \in 1..Len(similarities) :
    /\ similarities[i] = top
    /\ \A j \in 1..(i - 1) : similarities[j] # top

\* np.argmax: the first index holding the maximum.
\* np.argmin in the place of np.argmax.
ArgMin(similarities) ==
  FirstIndexOf(similarities,
               CHOOSE x \in {similarities[i] : i \in DOMAIN similarities} :
                 \A i \in DOMAIN similarities : x <= similarities[i])

ArgMax(similarities) ==
  FirstIndexOf(similarities,
               MaxOf({similarities[k] : k \in 1..Len(similarities)}))

\* _find_best_match from the argmax on: the pair
\* <<matched_question, similarity_score>>.
\* The best question returned whatever its score.
BestMatchAtAnyScore(similarities, best_idx) ==
  <<Some(QUESTIONS[best_idx]), similarities[best_idx]>>

BestMatchAt(similarities, best_idx) ==
  IF similarities[best_idx] >= SIMILARITY_THRESHOLD
  THEN <<Some(QUESTIONS[best_idx]), similarities[best_idx]>>
  ELSE <<None, similarities[best_idx]>>

\* similarities is the vector np.dot(predefined_embeddings, query_embedding.T)
\* the encoder yields for the query.
FindBestMatch(similarities) == BestMatchAt(similarities, ArgMax(similarities))

----------------------------------------------------------------------------
(* agent.py: _find_facet_match *)

\* Priority 1: the first facet, in FACET_MAP order, that is a substring.
\* A substring pass that keeps the last facet contained in the query
\* instead of returning at the first.
SubstringPassLast(query_lower, i) ==
  LET hits == {k \in i..Len(FACET_KEYS) : Contains(FACET_KEYS[k], query_lower)}
  IN  IF hits = {} THEN None
      ELSE Some(FACET_MAP[FACET_KEYS[CHOOSE k \in hits : \A j \in hits : j <= k]])

\* A substring pass that returns the facet found leftmost in the query.
SubstringPassLeftmost(query_lower, i) ==
  LET hits == {k \in i..Len(FACET_KEYS) : Contains(FACET_KEYS[k], query_lower)}
      At(k) == CHOOSE at \in 1..Len(query_lower) :
                 /\ SubSeq(query_lower, at, at + Len(FACET_KEYS[k]) - 1) = FACET_KEYS[k]
                 /\ \A b \in 1..(at - 1) :
                      SubSeq(query_lower, b, b + Len(FACET_KEYS[k]) - 1) # FACET_KEYS[k]
  IN  IF hits = {} THEN None
      ELSE Some(FACET_MAP[FACET_KEYS[CHOOSE k \in hits : \A j \in hits : At(k) <= At(j)]])

RECURSIVE SubstringPass(_, _)
SubstringPass(query_lower, i) ==
  IF i > Len(FACET_KEYS) THEN None
  ELSE IF Contains(FACET_KEYS[i], query_lower) THEN Some(FACET_MAP[FACET_KEYS[i]])
  ELSE SubstringPass(query_lower, i + 1)

\* Priority 2: the loop over FACET_MAP that keeps the best word overlap.
\* An overlap pass that replaces the best facet on an equal overlap too.
RECURSIVE OverlapPassLatest(_, _, _, _)
OverlapPassLatest(query_words, i, best_match, best_score) ==
  IF i > Len(FACET_KEYS) THEN best_match
  ELSE LET facet_words == Split(FACET_KEYS[i])
           overlap == Cardinality(query_words \cap facet_words)
       IN IF overlap >= 2 /\ overlap >= best_score
          THEN OverlapPassLatest(query_words, i + 1, Some(FACET_MAP[FACET_KEYS[i]]), overlap)
          ELSE OverlapPassLatest(query_words, i + 1, best_match, best_score)

RECURSIVE OverlapPass(_, _, _, _)
OverlapPass(query_words, i, best_match, best_score) ==
  IF i > Len(FACET_KEYS) THEN best_match
  ELSE LET facet_words == Split(FACET_KEYS[i])
           overlap == Cardinality(query_words \cap facet_words)
       IN IF overlap >= 2 /\ overlap > best_score
          THEN OverlapPass(query_words, i + 1, Some(FACET_MAP[FACET_KEYS[i]]), overlap)
          ELSE OverlapPass(query_words, i + 1, best_match, best_score)

\* The passes _find_facet_match runs, given what priority 1 returned.
PassesRun(exact) ==
  IF exact # None THEN <<"substring">> ELSE <<"substring", "overlap">>

\* Priority 2 runs only when priority 1 returned nothing.
FacetPasses(query_lower, exact) ==
  IF exact # None THEN exact
  ELSE OverlapPass(Split(query_lower), 1, None, 0)

FacetLookup(query_lower) == FacetPasses(query_lower, SubstringPass(query_lower, 1))

FindFacetMatch(query) == FacetLookup(Lower(query))

----------------------------------------------------------------------------
(* agent.py: _detect_intent *)

help_keywords ==
  <<"help", "what can you do", "what do you do", "capabilities",
    "what are you", "who are you", "features", "functions", "assist">>

greeting_words == <<"hi", "hello", "hey", "greetings", "howdy", "hiya", "yo", "sup">>

time_greetings == <<"morning", "afternoon", "evening">>

farewell_words == <<"bye", "goodbye", "cya", "later">>

gratitude_words == <<"thanks", "thank", "thx", "ty", "appreciate", "grateful", "cheers">>

ack_words == <<"ok", "okay", "cool", "great", "good", "nice", "perfect", "sure", "alright">>

confusion_words == <<"what", "huh", "confused">>

\* any(word in words_set for word in word_list)
AnyWordIn(word_list, words_set) ==
  \E k \in 1..Len(word_list) : word_list[k] \in words_set

\* any(keyword in text for keyword in keyword_list)
AnyKeywordIn(keyword_list, text) ==
  \E k \in 1..Len(keyword_list) : Contains(keyword_list[k], text)

\* The decision list with the greeting rules tried before the help rule.
IntentRulesGreetingFirst(query_lower, words_set) ==
  IF AnyWordIn(greeting_words, words_set) THEN "greeting"
  ELSE IF AnyKeywordIn(time_greetings, query_lower) THEN "greeting"
  ELSE IF AnyKeywordIn(help_keywords, query_lower) THEN "help"
  ELSE IF AnyWordIn(farewell_words, words_set) THEN "farewell"
  ELSE IF \/ Contains("see you", query_lower)
          \/ "exit" \in words_set
          \/ "quit" \in words_set THEN "farewell"
  ELSE IF AnyWordIn(gratitude_words, words_set) THEN "gratitude"
  ELSE IF AnyWordIn(ack_words, words_set) THEN "acknowledgment"
  ELSE IF AnyWordIn(SubSeq(confusion_words, 1, 2), words_set) THEN "confusion"
  ELSE IF \/ Contains("don't understand", query_lower)
          \/ Contains("dont understand", query_lower) THEN "confusion"
  ELSE "unknown"

\* The decision list with the help keywords looked up among the words of
\* the query, as the greeting words are, instead of as substrings.
IntentRulesHelpByWord(query_lower, words_set) ==
  IF AnyWordIn(help_keywords, words_set) THEN "help"
  ELSE IF AnyWordIn(greeting_words, words_set) THEN "greeting"
  ELSE IF AnyKeywordIn(time_greetings, query_lower) THEN "greeting"
  ELSE IF AnyWordIn(farewell_words, words_set) THEN "farewell"
  ELSE IF \/ Contains("see you", query_lower)
          \/ "exit" \in words_set
          \/ "quit" \in words_set THEN "farewell"
  ELSE IF AnyWordIn(gratitude_words, words_set) THEN "gratitude"
  ELSE IF AnyWordIn(ack_words, words_set) THEN "acknowledgment"
  ELSE IF AnyWordIn(SubSeq(confusion_words, 1, 2), words_set) THEN "confusion"
  ELSE IF \/ Contains("don't understand", query_lower)
          \/ Contains("dont understand", query_lower) THEN "confusion"
  ELSE "unknown"

\* The decision list of _detect_intent on query_lower and words_set.
IntentRules(query_lower, words_set) ==
  IF AnyKeywordIn(help_keywords, query_lower) THEN "help"
  ELSE IF AnyWordIn(greeting_words, words_set) THEN "greeting"
  ELSE IF AnyKeywordIn(time_greetings, query_lower) THEN "greeting"
  ELSE IF AnyWordIn(farewell_words, words_set) THEN "farewell"
  ELSE IF \/ Contains("see you", query_lower)
          \/ "exit" \in words_set
          \/ "quit" \in words_set THEN "farewell"
  ELSE IF AnyWordIn(gratitude_words, words_set) THEN "gratitude"
  ELSE IF AnyWordIn(ack_words, words_set) THEN "acknowledgment"
  ELSE IF AnyWordIn(SubSeq(confusion_words, 1, 2), words_set) THEN "confusion"
  ELSE IF \/ Contains("don't understand", query_lower)
          \/ Contains("dont understand", query_lower) THEN "confusion"
  ELSE "unknown"

IntentOfLower(query_lower) == IntentRules(query_lower, Split(query_lower))

DetectIntent(query) == IntentOfLower(Strip(Lower(query)))

----------------------------------------------------------------------------
(* agent.py: _get_generic_response *)

\* The map with the confusion entry labelled as the unknown entry is.
response_map_confusion_unlabelled ==
  [greeting       |-> <<GREETING_RESPONSES, "generic-greeting">>,
   help           |-> <<HELP_RESPONSES, "generic-help">>,
   farewell       |-> <<FAREWELL_RESPONSES, "generic-farewell">>,
   gratitude      |-> <<GRATITUDE_RESPONSES, "generic-gratitude">>,
   acknowledgment |-> <<ACKNOWLEDGMENT_RESPONSES, "generic-ack">>,
   confusion      |-> <<CONFUSION_RESPONSES, "generic-unknown">>,
   unknown        |-> <<UNKNOWN_RESPONSES, "generic-unknown">>]

\* The map with the pools of farewell and gratitude exchanged.
response_map_pools_exchanged ==
  [greeting       |-> <<GREETING_RESPONSES, "generic-greeting">>,
   help           |-> <<HELP_RESPONSES, "generic-help">>,
   farewell       |-> <<GRATITUDE_RESPONSES, "generic-farewell">>,
   gratitude      |-> <<FAREWELL_RESPONSES, "generic-gratitude">>,
   acknowledgment |-> <<ACKNOWLEDGMENT_RESPONSES, "generic-ack">>,
   confusion      |-> <<CONFUSION_RESPONSES, "generic-confusion">>,
   unknown        |-> <<UNKNOWN_RESPONSES, "generic-unknown">>]

response_map ==
  [greeting       |-> <<GREETING_RESPONSES, "generic-greeting">>,
   help           |-> <<HELP_RESPONSES, "generic-help">>,
   farewell       |-> <<FAREWELL_RESPONSES, "generic-farewell">>,
   gratitude      |-> <<GRATITUDE_RESPONSES, "generic-gratitude">>,
   acknowledgment |-> <<ACKNOWLEDGMENT_RESPONSES, "generic-ack">>,
   confusion      |-> <<CONFUSION_RESPONSES, "generic-confusion">>,
   unknown        |-> <<UNKNOWN_RESPONSES, "generic-unknown">>]

\* response_map.get(intent, response_map["unknown"])
BankOf(intent) ==
  IF intent \in DOMAIN response_map THEN response_map[intent] ELSE response_map["unknown"]

\* counter_key = intent if intent in self._response_counters else "unknown"
CounterKey(intent, counters) ==
  IF intent \in DOMAIN counters THEN intent ELSE "unknown"

\* The index read from the counter; Python lists are 0-based, sequences 1-based.
TemplateIndex(intent, counters) ==
  counters[CounterKey(intent, counters)] % Len(BankOf(intent)[1])

\* The counters after an increment of every cursor at once.
AdvanceEvery(intent, counters) == [k \in DOMAIN counters |-> counters[k] + 1]

\* The counters after an increment that starts again at 0 when the pool
\* has been gone through.
AdvanceWrapping(intent, counters) ==
  [counters EXCEPT ![CounterKey(intent, counters)] =
     (@ + 1) % Len(BankOf(intent)[1])]

\* The counters after an increment that skips a template.
AdvanceByTwo(intent, counters) ==
  [counters EXCEPT ![CounterKey(intent, counters)] = @ + 2]

\* The counters after self._response_counters[counter_key] += 1.
Advance(intent, counters) ==
  [counters EXCEPT ![CounterKey(intent, counters)] = @ + 1]

\* The pair <<response, source>> returned for the counters as they are.
GetGenericResponse(intent, counters) ==
  <<BankOf(intent)[1][TemplateIndex(intent, counters) + 1], BankOf(intent)[2]>>

----------------------------------------------------------------------------
(* agent.py: _get_openai_response *)

\* What chat.completions.create can do: raise, or return a message whose
\* content is None, empty or a text.
LLMReplies ==
  {[raised |-> TRUE, content |-> None],
   [raised |-> FALSE, content |-> None],
   [raised |-> FALSE, content |-> Some("")],
   [raised |-> FALSE, content |-> Some("I'm not sure about that.")]}

\* The API is called only past the guard of line 436.
CallsOpenAI(enabled, client) == enabled /\ client # None

\* A fallback that gives up before it calls the API.
GetOpenAIResponseUnavailable(enabled, client, reply) == None

GetOpenAIResponse(enabled, client, reply) ==
  IF ~CallsOpenAI(enabled, client) THEN None
  ELSE IF reply.raised THEN None
  ELSE reply.content

----------------------------------------------------------------------------
(* The encoder.  SentenceTransformer.encode is a library call; the model   *)
(* keeps of it what the code relies on: the vectors are unit vectors, so   *)
(* a stored question scores MaxScore against itself and less against a     *)
(* different stored vector.  The scores of any other query are free.       *)

\* A similarity vector with a peak of the given score at stored question i,
\* repeated at the next index (cyclically) when tie holds, and a low score
\* everywhere else.
Peak(i, peak_score, tie) ==
  [k \in 1..Len(QUESTIONS) |->
     IF k = i \/ (tie /\ k = (i % Len(QUESTIONS)) + 1) THEN peak_score ELSE 10]

\* Below, at and above SIMILARITY_THRESHOLD, and the maximum.
PeakScores == {40, 55, 70, 100}

\* The indexes in QUESTIONS of the first and of the last question of every
\* topic: a tie at the next index then pairs two topics, either way round.
PeakPositions ==
  {i \in 1..Len(QUESTIONS) :
     \/ i = 1
     \/ i = Len(QUESTIONS)
     \/ ANSWER_MAP[QUESTIONS[i]] # ANSWER_MAP[QUESTIONS[i - 1]]
     \/ ANSWER_MAP[QUESTIONS[i]] # ANSWER_MAP[QUESTIONS[i + 1]]}

SimFamily ==
  {Peak(i, s, tie) : i \in PeakPositions, s \in PeakScores, tie \in BOOLEAN}
  \cup {Peak(i, 100, FALSE) : i \in 1..Len(QUESTIONS)}

\* The indexes at which q is stored.
StoredAt(q) == {i \in 1..Len(QUESTIONS) : QUESTIONS[i] = q}

EncoderAllows(stored, similarities) ==
  \A i \in stored :
    /\ similarities[i] = MaxScore
    /\ \A j \in 1..Len(QUESTIONS) : j # i => similarities[j] < MaxScore

EncodingsOf(stored, Sims) ==
  IF stored = {} THEN Sims ELSE {v \in Sims : EncoderAllows(stored, v)}

\* The similarity vectors of Sims the encoder can yield for the query q.
Encodings(q, Sims) == EncodingsOf(StoredAt(q), Sims)

\* The encoder is a function: a text it has encoded once it encodes to the
\* same vector ever after, and _find_best_match then returns the same
\* pair.  encoded holds that pair for every text encoded so far.
VARIABLE encoded

\* The pairs _find_best_match can return for q when the encoder is free to
\* answer differently at every call.
BestMatchesAfresh(q, Sims) == {FindBestMatch(v) : v \in Encodings(q, Sims)}

\* The pairs _find_best_match can return for the query q.
BestMatches(q, Sims) ==
  IF q \in DOMAIN encoded THEN {encoded[q]}
  ELSE {FindBestMatch(v) : v \in Encodings(q, Sims)}

----------------------------------------------------------------------------
(* The agent (ThoughtfulAIAgent) and the observation of its last call *)

VARIABLES
  response_counters,  \* self._response_counters
  openai_client,      \* self.openai_client
  openai_enabled,     \* self.openai_enabled
  query,              \* the argument of the last respond call, None before it
  result,             \* the dictionary the last respond call returned
  facet_found,        \* what _find_facet_match returned in the last call
  trace,              \* the collaborators the last call invoked, in order
  intent,             \* the label _detect_intent gave in the last call
  score,              \* the best similarity _find_best_match computed
  reply,              \* what the OpenAI API did in the last call
  classified,         \* per intent, the calls _detect_intent labelled so far
  returned,           \* per source, the respond calls that returned it so far
  predefined_embeddings, \* self.predefined_embeddings, one vector per question
  seen,               \* per query, the result of the last respond call with it
  decided,            \* per query, the facet answer and the label of that call
  dispatched,         \* the pair the last direct _get_generic_response call gave
  threads,            \* the concurrent callers of _get_generic_response
  matched,            \* the last direct _find_best_match call: vector and pair
  looked_up,          \* the last direct _find_facet_match call: passes and answer
  agents,             \* per agent of the process, the address of its cursor dict
  dicts,              \* the cursor dicts of the process, by address
  current,            \* the agent the calls are made on
  environment,        \* what the process offered _init_openai_silently
  constructed,        \* whether __init__ has run _init_openai_silently
  knowledge_base,     \* the topics data.py builds a facet index from
  facet_index,        \* the index being built, a dict as its items in order
  written             \* how many facets the loop has registered

vars ==
  <<response_counters, openai_client, openai_enabled, query, result,
    facet_found, trace, intent, score, reply, classified, returned,
    predefined_embeddings, encoded, seen, decided,
    dispatched, threads, matched,
    looked_up, agents, dicts, current, environment, constructed,
    knowledge_base, facet_index, written>>

\* What only the direct calls of the matchers write.
aside == <<matched, looked_up>>

\* The agents of the process.  response_counters is the cursor dict of the
\* agent the calls are made on; dicts holds the dicts of the others.
instances == <<agents, dicts, current>>

\* The setting the agent was constructed in.
setting == <<environment, constructed>>

\* The build of a facet index.
build == <<knowledge_base, facet_index, written>>

\* The values of the "source" key of a result.
Sources ==
  {"error", "predefined", "llm"} \cup {response_map[i][2] : i \in Intents}

RECURSIVE SumOver(_, _)
SumOver(f, keys) ==
  IF keys = {} THEN 0
  ELSE LET k == CHOOSE x \in keys : TRUE IN f[k] + SumOver(f, keys \ {k})

\* The respond calls completed so far.
Calls == SumOver(returned, Sources)

\* The callers of the agent when it is shared between threads.
Threads == {1, 2}

\* A thread that is not inside _get_generic_response.
Idle == [pc |-> "idle", intent |-> None, index |-> None, loaded |-> None,
         response |-> None]

\* __init__
\* The fields as __init__ leaves them, with a given LLM configuration.
Fields(client, enabled) ==
  /\ response_counters = [i \in Intents |-> 0]
  /\ openai_client = client
  /\ openai_enabled = enabled
  /\ query = None
  /\ result = None
  /\ facet_found = None
  /\ trace = <<>>
  /\ intent = None
  /\ score = None
  /\ reply = None
  /\ classified = [i \in Intents |-> 0]
  /\ returned = [s \in Sources |-> 0]
  /\ predefined_embeddings = QUESTIONS
  /\ encoded = <<>>
  /\ seen = <<>>
  /\ decided = <<>>
  /\ dispatched = None
  /\ threads = [t \in Threads |-> Idle]
  /\ matched = None
  /\ looked_up = None
  /\ agents = <<1>>
  /\ dicts = <<[i \in Intents |-> 0]>>
  /\ current = 1

\* The index of the agent is the constant FACET_MAP, built from
\* PREDEFINED_QA; no other index is being built.
Unbuilt ==
  /\ knowledge_base = <<>>
  /\ facet_index = <<>>
  /\ written = 0

\* The state after __init__, in one of the environments of a session.
Init ==
  \E env \in SessionEnvironments :
    /\ Unbuilt
    /\ environment = env
    /\ constructed = TRUE
    /\ Fields(InitOpenAI(env.OPENAI_AVAILABLE, env.api_key, env.constructor_raises)[1],
              InitOpenAI(env.OPENAI_AVAILABLE, env.api_key, env.constructor_raises)[2])

\* __init__ at line 140, about to call _init_openai_silently: the fields
\* hold what lines 117-136 gave them.
Boot ==
  \E env \in Environments :
    /\ Unbuilt
    /\ environment = env
    /\ constructed = FALSE
    /\ Fields(None, FALSE)

\* _init_openai_silently, the last step of __init__.
InitOpenAISilently ==
  /\ ~constructed
  /\ constructed' = TRUE
  /\ openai_client' = InitOpenAI(environment.OPENAI_AVAILABLE, environment.api_key,
                                 environment.constructor_raises)[1]
  /\ openai_enabled' = InitOpenAI(environment.OPENAI_AVAILABLE, environment.api_key,
                                  environment.constructor_raises)[2]
  /\ UNCHANGED <<response_counters, query, result, facet_found, trace, intent,
                 score, reply, classified, returned, predefined_embeddings,
                 encoded, seen, decided, dispatched, threads, environment>>
  /\ UNCHANGED aside
  /\ UNCHANGED instances
  /\ UNCHANGED build

\* A return statement of respond, with what the call did before it.
Return(res, tr, label, best, api, counters) ==
  /\ result' = Some(res)
  /\ trace' = tr
  /\ intent' = label
  /\ score' = best
  /\ reply' = api
  /\ response_counters' = counters
  /\ classified' = IF label = None THEN classified
                   ELSE [classified EXCEPT ![label[1]] = @ + 1]
  /\ returned' = [returned EXCEPT ![res.source] = @ + 1]

\* Priority 5 of respond (lines 566-572): the generic fallback.
GenericRespond(tr, label, best, api, generic) ==
  Return([response |-> generic[1], source |-> generic[2], confidence |-> None],
         Append(tr, "generic"), Some(label), Some(best), api,
         Advance(label, response_counters))

\* Priority 4 with "is not None" in the place of the truth test of line 555.
ExternalFallbackNotNone(tr, label, best, api, openai_response) ==
  IF openai_response # None
  THEN Return([response |-> openai_response[1], source |-> "llm", confidence |-> None],
              tr, Some(label), Some(best), Some(api), response_counters)
  ELSE GenericRespond(tr, label, best, Some(api),
                      GetGenericResponse(label, response_counters))

\* Priority 4 (lines 553-560): api is what the OpenAI API does if called.
ExternalFallback(tr, label, best, api, openai_response) ==
  IF Truthy(openai_response)
  THEN Return([response |-> openai_response[1], source |-> "llm", confidence |-> None],
              tr, Some(label), Some(best), Some(api), response_counters)
  ELSE GenericRespond(tr, label, best, Some(api),
                      GetGenericResponse(label, response_counters))

\* Priority 4 guarded by self.openai_enabled alone, whatever the intent.
IntentClassifyAnyIntent(q, best, label) ==
  IF openai_enabled
  THEN \E api \in LLMReplies :
         ExternalFallback(IF CallsOpenAI(openai_enabled, openai_client)
                          THEN <<"facet", "embedding", "intent", "llm">>
                          ELSE <<"facet", "embedding", "intent">>,
                          label, best, api,
                          GetOpenAIResponse(openai_enabled, openai_client, api))
  ELSE GenericRespond(<<"facet", "embedding", "intent">>, label, best, None,
                      GetGenericResponse(label, response_counters))

\* Priority 3 (line 547) and the guard of priority 4 (line 553).
IntentClassify(q, best, label) ==
  IF label = "unknown" /\ openai_enabled
  THEN \E api \in LLMReplies :
         ExternalFallback(IF CallsOpenAI(openai_enabled, openai_client)
                          THEN <<"facet", "embedding", "intent", "llm">>
                          ELSE <<"facet", "embedding", "intent">>,
                          label, best, api,
                          GetOpenAIResponse(openai_enabled, openai_client, api))
  ELSE GenericRespond(<<"facet", "embedding", "intent">>, label, best, None,
                      GetGenericResponse(label, response_counters))

\* Priority 2 with the classifier run before the match is returned.
EmbeddingCheckThenClassify(q, match) ==
  IF Truthy(match[1])
  THEN Return([response |-> ANSWERS[match[1][1]], source |-> "predefined",
               confidence |-> Some(match[2])],
              <<"facet", "embedding", "intent">>, Some(DetectIntent(q)),
              Some(match[2]), None, response_counters)
  ELSE IntentClassify(q, match[2], DetectIntent(q))

\* Priority 2 (lines 533-540): match is the pair _find_best_match returned.
EmbeddingCheck(q, match) ==
  IF Truthy(match[1])
  THEN Return([response |-> ANSWERS[match[1][1]], source |-> "predefined",
               confidence |-> Some(match[2])],
              <<"facet", "embedding">>, None, Some(match[2]), None, response_counters)
  ELSE IntentClassify(q, match[2], DetectIntent(q))

\* Priority 1 (lines 520-526).
FacetCheck(q, facet_answer, Sims) ==
  IF Truthy(facet_answer)
  THEN Return([response |-> facet_answer[1], source |-> "predefined",
               confidence |-> Some(FACET_CONFIDENCE)],
              <<"facet">>, None, None, None, response_counters)
       /\ facet_found' = facet_answer
       /\ encoded' = encoded
  ELSE \E match \in BestMatches(q, Sims) :
         /\ facet_found' = facet_answer
         /\ encoded' = (q :> match) @@ encoded
         /\ EmbeddingCheck(q, match)

\* Lines 505-513: q is the stripped query.
Start(q, Sims) ==
  IF q = ""
  THEN Return([response |-> "Please enter a valid question.", source |-> "error",
               confidence |-> None],
              <<>>, None, None, None, response_counters)
       /\ facet_found' = None
       /\ encoded' = encoded
  ELSE FacetCheck(q, FindFacetMatch(q), Sims)

\* A respond that switches the LLM off once a call of it has raised.
RespondSwitchingOff(raw, Sims) ==
  /\ query' = Some(raw)
  /\ UNCHANGED <<openai_client, predefined_embeddings, threads>>
  /\ UNCHANGED aside
  /\ UNCHANGED instances
  /\ UNCHANGED setting
  /\ UNCHANGED build
  /\ dispatched' = None
  /\ Start(Strip(raw), Sims)
  /\ openai_enabled' = (openai_enabled /\ (reply' = None \/ ~reply'[1].raised))
  /\ seen' = (raw :> result'[1]) @@ seen
  /\ decided' = (raw :> [facet |-> facet_found', intent |-> intent']) @@ decided

\* respond(raw): one whole call.  Sims is the set of similarity vectors the
\* encoder is taken to be able to produce.
Respond(raw, Sims) ==
  /\ query' = Some(raw)
  /\ UNCHANGED <<openai_client, openai_enabled, predefined_embeddings, threads>>
  /\ UNCHANGED aside
  /\ UNCHANGED instances
  /\ UNCHANGED setting
  /\ UNCHANGED build
  /\ dispatched' = None
  /\ Start(Strip(raw), Sims)
  /\ seen' = (raw :> result'[1]) @@ seen
  /\ decided' = (raw :> [facet |-> facet_found', intent |-> intent']) @@ decided

\* _detect_intent(raw) called on its own: it reads nothing of the agent
\* and changes nothing of it.
DetectIntentCall(raw) ==
  /\ query' = Some(raw)
  /\ intent' = Some(DetectIntent(raw))
  /\ trace' = <<"intent">>
  /\ result' = None
  /\ facet_found' = None
  /\ score' = None
  /\ reply' = None
  /\ dispatched' = None
  /\ UNCHANGED <<response_counters, openai_client, openai_enabled, classified,
                 returned, predefined_embeddings, encoded, seen, decided,
                 threads>>
  /\ UNCHANGED aside
  /\ UNCHANGED instances
  /\ UNCHANGED setting
  /\ UNCHANGED build

\* _get_generic_response(label) called on its own, as respond calls it at
\* line 566 or as any other caller may: label need not be one of Intents.
GetGenericResponseCall(label) ==
  /\ dispatched' = Some(GetGenericResponse(label, response_counters))
  /\ response_counters' = Advance(label, response_counters)
  /\ intent' = Some(label)
  /\ trace' = <<"generic">>
  /\ query' = None
  /\ result' = None
  /\ facet_found' = None
  /\ score' = None
  /\ reply' = None
  /\ UNCHANGED <<openai_client, openai_enabled, classified, returned,
                 predefined_embeddings, encoded, seen, decided, threads>>
  /\ UNCHANGED aside
  /\ UNCHANGED instances
  /\ UNCHANGED setting
  /\ UNCHANGED build

\* The address at which every agent finds one dict they all share.
SharedDict(heap) == 1

\* The address of the dict the literal of __init__ (lines 122-130) creates:
\* a new one at every construction.
NewDict(heap) == Len(heap) + 1

\* What a step that is no call leaves alone.
UnchangedByCaller ==
  UNCHANGED <<openai_client, openai_enabled, query, result, facet_found, trace,
              intent, score, reply, classified, returned, predefined_embeddings,
              encoded, seen, decided, dispatched, threads, matched, looked_up,
              environment, constructed, knowledge_base, facet_index, written>>

\* ThoughtfulAIAgent() once more in the same process: __init__ binds the
\* new agent's _response_counters to a dict of seven zeros.
Construct ==
  /\ agents' = Append(agents, NewDict(dicts))
  /\ dicts' = IF NewDict(dicts) > Len(dicts)
              THEN Append(dicts, [i \in Intents |-> 0])
              ELSE [dicts EXCEPT ![NewDict(dicts)] = [i \in Intents |-> 0]]
  /\ response_counters' = IF NewDict(dicts) = agents[current]
                          THEN [i \in Intents |-> 0]
                          ELSE response_counters
  /\ UNCHANGED current
  /\ UnchangedByCaller

\* The caller turns to agent k: the calls that follow are made on it.
Switch(k) ==
  /\ k \in 1..Len(agents)
  /\ k # current
  /\ current' = k
  /\ IF agents[k] = agents[current]
     THEN UNCHANGED <<dicts, response_counters>>
     ELSE /\ dicts' = [dicts EXCEPT ![agents[current]] = response_counters]
          /\ response_counters' = dicts[agents[k]]
  /\ UNCHANGED agents
  /\ UnchangedByCaller

\* data.py at line 143, about to build the facet index of a knowledge
\* base: no agent has been constructed yet.
Load(kb) ==
  /\ knowledge_base = kb
  /\ facet_index = <<>>
  /\ written = 0
  /\ environment = [OPENAI_AVAILABLE |-> FALSE, api_key |-> None,
                    constructor_raises |-> FALSE]
  /\ constructed = FALSE
  /\ Fields(None, FALSE)

\* One pass of the inner loop of data.py (lines 161-162):
\* FACET_MAP[facet.lower()] = answer.
RegisterFacet ==
  /\ written < Len(FacetWritesOf(knowledge_base))
  /\ written' = written + 1
  /\ facet_index' = DictSet(facet_index,
                            FacetWritesOf(knowledge_base)[written + 1].key,
                            FacetWritesOf(knowledge_base)[written + 1].answer)
  /\ UNCHANGED knowledge_base
  /\ UNCHANGED <<response_counters, openai_client, openai_enabled, query, result,
                 facet_found, trace, intent, score, reply, classified, returned,
                 predefined_embeddings, encoded, seen, decided, dispatched,
                 threads>>
  /\ UNCHANGED aside
  /\ UNCHANGED instances
  /\ UNCHANGED setting

\* _find_best_match(q) called on its own: the encoder yields the vector
\* similarities for q, and the pair returned is the one it returned
\* for q before, if it was called with q before.
FindBestMatchCall(q, similarities) ==
  /\ FindBestMatch(similarities) \in BestMatches(q, {similarities})
  /\ matched' = Some([similarities |-> similarities,
                      returned |-> FindBestMatch(similarities)])
  /\ encoded' = (q :> FindBestMatch(similarities)) @@ encoded
  /\ query' = Some(q)
  /\ score' = Some(FindBestMatch(similarities)[2])
  /\ trace' = <<"embedding">>
  /\ result' = None
  /\ facet_found' = None
  /\ intent' = None
  /\ reply' = None
  /\ dispatched' = None
  /\ UNCHANGED <<response_counters, openai_client, openai_enabled, classified,
                 returned, predefined_embeddings, seen, decided,
                 threads, looked_up,
                 agents, dicts, current, environment, constructed, knowledge_base, facet_index, written>>

\* _find_facet_match(q) called on its own.
FindFacetMatchCall(q) ==
  /\ looked_up' = Some([passes |-> PassesRun(SubstringPass(Lower(q), 1)),
                        answer |-> FindFacetMatch(q)])
  /\ query' = Some(q)
  /\ facet_found' = FindFacetMatch(q)
  /\ trace' = <<"facet">>
  /\ result' = None
  /\ intent' = None
  /\ score' = None
  /\ reply' = None
  /\ dispatched' = None
  /\ UNCHANGED <<response_counters, openai_client, openai_enabled, classified,
                 returned, predefined_embeddings, encoded, seen, decided,
                 threads, matched,
                 agents, dicts, current, environment, constructed, knowledge_base, facet_index, written>>

\* _get_generic_response(label) run by thread t of several that share the
\* agent.  The code takes no lock, so between two of its statements, and
\* between the read and the write of the += of line 414, another thread
\* may run.
UnchangedByThread ==
  UNCHANGED <<openai_client, openai_enabled, query, result, facet_found, trace,
              intent, score, reply, classified, returned, predefined_embeddings,
              encoded, seen, decided,
              dispatched, matched, looked_up, agents, dicts,
              current, environment, constructed, knowledge_base,
              facet_index, written>>

\* Lines 408-413: the bank is looked up and the index is read off the cursor.
ReadIndex(t, label) ==
  /\ threads[t].pc = "idle"
  /\ threads' = [threads EXCEPT ![t] =
                   [pc |-> "load", intent |-> Some(label),
                    index |-> Some(TemplateIndex(label, response_counters)),
                    loaded |-> None, response |-> None]]
  /\ UNCHANGED response_counters
  /\ UnchangedByThread

\* Line 414, first half: the cursor is read.
LoadCounter(t) ==
  /\ threads[t].pc = "load"
  /\ threads' = [threads EXCEPT ![t].pc = "store",
                                ![t].loaded = Some(response_counters[
                                   CounterKey(threads[t].intent[1], response_counters)])]
  /\ UNCHANGED response_counters
  /\ UnchangedByThread

\* Line 414, second half, and line 416: the cursor is written and the
\* template at the index is returned.
StoreCounter(t) ==
  /\ threads[t].pc = "store"
  /\ response_counters' =
       [response_counters EXCEPT
          ![CounterKey(threads[t].intent[1], response_counters)] =
             threads[t].loaded[1] + 1]
  /\ threads' = [threads EXCEPT ![t].pc = "done",
                                ![t].response =
                                   Some(BankOf(threads[t].intent[1])[1][threads[t].index[1] + 1])]
  /\ UnchangedByThread

----------------------------------------------------------------------------
(* The queries *)

\* Fragments the queries are put together from: whitespace, punctuation,
\* trigger words and phrases of the intents, in both cases, with and
\* without a space around them, facet phrases of three topics, a facet with
\* its words reordered, a one-word facet, and a word no rule knows.
Pieces ==
  {" ", "\t", "?", "hi", "Hello ", "help", "what can you do", "thanks ", "bye",
   "ok", "what", "huh ", "weather", "morning", "dont understand",
   "verify eligibility", " process claims", "POST PAYMENTS", "payments post",
   "roi"}

MaxPieces == 2

RECURSIVE Phrases(_)
Phrases(n) ==
  IF n = 0 THEN {""}
  ELSE LET shorter == Phrases(n - 1)
       IN shorter \cup {p \o w : p \in shorter, w \in Pieces}

\* Questions about nothing the knowledge base covers: the ones of
\* test_unknown_queries and of test_openai_only_for_unknown_intent, and one
\* more that begins as many questions do.
OffTopic ==
  {"what is the weather today?", "tell me about space", "how do I cook pasta?",
   "tell me about the solar system", "what do birds eat"}

\* Every stored question, every phrase of at most MaxPieces pieces, and
\* the questions off the topic.
Queries ==
  {QUESTIONS[i] : i \in 1..Len(QUESTIONS)} \cup Phrases(MaxPieces) \cup OffTopic

\* The queries of a session: queries the test suites use, one or two per
\* outcome of the cascade.
SessionQueries ==
  {"", " \t\n", "how do you handle claims?", "What is EVA?", "hi",
   "tell me about the solar system"}

\* The queries of a streak: one of the test suites' queries per intent.
StreakQueries ==
  {"hi", "help", "bye", "thanks", "ok", "what", "tell me about the solar system"}

\* For a session the encoder either finds nothing near the query or finds
\* a stored question at the threshold.
SessionSims == {Peak(3, 40, FALSE), Peak(3, 55, FALSE), Peak(3, 100, FALSE)}

MaxCalls == 3

MaxStreak == 11

\* Labels no bank is registered for.
Unregistered == {"smalltalk", "complaint"}

MaxDispatches == 3

\* The texts _find_best_match is called with directly: a stored question
\* and a question off the topic.
MatchQueries == {"What is EVA?", "tell me about space"}

MaxMatches == 2

\* The queries of a mixed session: one per intent, the empty query and a
\* query a facet answers.
MixedQueries == StreakQueries \cup {"", "how do you handle claims?"}

\* In a mixed session the encoder finds nothing near any query.
MixedSims == {Peak(3, 40, FALSE)}

MaxMixed == 3

\* The queries put to the agents of one process: a greeting and a farewell.
ProcessQueries == {"hi", "bye"}

MaxAgents == 2

\* Trial knowledge bases: up to MaxTopics topics, each with one of these
\* lists of facets, in which a phrase comes back in another case, in
\* another topic or in the same.  The answer of a topic is written as its
\* number.
FacetLists ==
  {<<"ROI">>, <<"roi">>, <<"save time">>, <<"save time", "roi">>, <<"Roi", "ROI">>}

MaxTopics == 3

RECURSIVE SeqsUpTo(_, _)
SeqsUpTo(S, n) ==
  IF n = 0 THEN {<<>>}
  ELSE SeqsUpTo(S, n - 1) \cup {Append(q, x) : q \in SeqsUpTo(S, n - 1), x \in S}

KnowledgeBases ==
  {[t \in 1..Len(fs) |-> [answer |-> t, facets |-> fs[t]]] :
     fs \in SeqsUpTo(FacetLists, MaxTopics) \ {<<>>}}

\* Queries to be put in several spellings: a greeting, thanks, a facet
\* phrase, the same with a sharp s, a stored question and a question off
\* the topic.
CaseQueries ==
  {"hi", "thanks", "process claims", "proceß claims", "what is eva?",
   "tell me about space"}

\* A query as typed, in capitals as str.upper() gives them, and padded
\* with whitespace.
UpperChar(c) ==
  IF c = "ß" THEN "SS"
  ELSE IF \E i \in 1..Len(LowerLetters) : Char(LowerLetters, i) = c
  THEN Char(UpperLetters, CHOOSE i \in 1..Len(LowerLetters) : Char(LowerLetters, i) = c)
  ELSE c

RECURSIVE Upper(_)
Upper(s) ==
  IF Len(s) = 0 THEN ""
  ELSE IF Len(s) = 1 THEN UpperChar(s)
  ELSE Upper(SubSeq(s, 1, Len(s) \div 2)) \o Upper(SubSeq(s, Len(s) \div 2 + 1, Len(s)))

Spellings(q) == {q, Upper(q), "  " \o q \o " "}

MaxSpellings == 2

\* Every keyword of INTENT_KEYWORDS as a query: on its own, padded with
\* whitespace, and as the last words of a sentence.
KeywordQueries ==
  UNION {{k, "  " \o k \o " ", "i am " \o k} :
           k \in UNION {{INTENT_KEYWORDS[I][n] : n \in 1..Len(INTENT_KEYWORDS[I])} :
                          I \in DOMAIN INTENT_KEYWORDS}}

\* The calls made on the agents of one process.
MaxShared == 3

\* Queries made of facet words out of order: two facets of different
\* topics with two words each, a two-word facet ahead of a three-word
\* facet of a later topic, and the other way round.
Reordered ==
  {"claims process payments post", "eligibility verify investment return on",
   "costs reduce work manual"}

----------------------------------------------------------------------------
(* The specifications *)

\* A session: up to MaxCalls calls on one agent.
Session ==
  /\ Calls < MaxCalls
  /\ \E raw \in SessionQueries : Respond(raw, SessionSims)

Next == Session

Spec == Init /\ [][Next]_vars

\* One call on a fresh agent, over all of Queries and SimFamily.
OneQuery ==
  /\ query = None
  /\ \E raw \in Queries : Respond(raw, SimFamily)

SpecQuery == Init /\ [][OneQuery]_vars

\* The classifier applied to every query.
Classify ==
  /\ query = None
  /\ \E raw \in Queries : DetectIntentCall(raw)

SpecIntent == Init /\ [][Classify]_vars

\* A streak: up to MaxStreak consecutive calls on a fresh agent, every one
\* of them with a query of the same intent as all the calls before it.
Streak ==
  /\ Calls < MaxStreak
  /\ \E raw \in StreakQueries :
       /\ Calls = classified[DetectIntent(Strip(raw))]
       /\ Respond(raw, SessionSims)

SpecRotation == Init /\ [][Streak]_vars

\* Up to MaxDispatches calls of the response bank, with registered and
\* unregistered labels.
Dispatch ==
  /\ SumOver(response_counters, Intents) < MaxDispatches
  /\ \E label \in Intents \cup Unregistered : GetGenericResponseCall(label)

SpecBank == Init /\ [][Dispatch]_vars

\* The threads of Threads, each making one call of the response bank on
\* the same fresh agent.
Concurrent ==
  \E t \in Threads :
    \/ \E label \in Intents : ReadIndex(t, label)
    \/ LoadCounter(t)
    \/ StoreCounter(t)

SpecThreads == Init /\ [][Concurrent]_vars

\* Direct calls of _find_best_match, over all of SimFamily, until
\* MaxMatches texts have been encoded.
Match ==
  /\ Cardinality(DOMAIN encoded) < MaxMatches
  /\ \E q \in MatchQueries :
       \E v \in Encodings(q, SimFamily) : FindBestMatchCall(q, v)

SpecMatch == Init /\ [][Match]_vars

\* A mixed session: up to MaxMixed calls on one agent, of any intents and
\* outcomes in any order.
Mixed ==
  /\ Calls < MaxMixed
  /\ \E raw \in MixedQueries : Respond(raw, MixedSims)

SpecMixed == Init /\ [][Mixed]_vars

\* Up to MaxAgents agents in one process and up to MaxShared calls,
\* shared out between them in any order.
Process ==
  \/ Len(agents) < MaxAgents /\ Construct
  \/ \E k \in 1..MaxAgents : Switch(k)
  \/ /\ Calls < MaxShared
     /\ \E raw \in ProcessQueries : Respond(raw, MixedSims)

SpecProcess == Init /\ [][Process]_vars

\* The classifier applied to the keywords of the table.
ClassifyKeyword ==
  /\ query = None
  /\ \E raw \in KeywordQueries : DetectIntentCall(raw)

SpecKeywords == Init /\ [][ClassifyKeyword]_vars

\* One query put to the agent in up to MaxSpellings of its spellings.
Respell ==
  /\ Cardinality(DOMAIN seen) < MaxSpellings
  /\ \E q \in CaseQueries :
       /\ DOMAIN seen \subseteq Spellings(q)
       /\ \E raw \in Spellings(q) \ DOMAIN seen : Respond(raw, MixedSims)

SpecCase == Init /\ [][Respell]_vars

\* An agent is constructed in any of the environments and then asked up
\* to MaxAsked queries.
ConstructQueries ==
  {"", "hi", "how do you handle claims?", "tell me about the solar system"}

MaxAsked == 1

Assemble ==
  \/ InitOpenAISilently
  \/ /\ constructed
     /\ Calls < MaxAsked
     /\ \E raw \in ConstructQueries : Respond(raw, MixedSims)

SpecConstruct == Boot /\ [][Assemble]_vars

\* The facet index of a trial knowledge base is built, facet by facet.
SpecIndex == (\E kb \in KnowledgeBases : Load(kb)) /\ [][RegisterFacet]_vars

\* One direct call of _find_facet_match, over all of Queries and Reordered.
Lookup ==
  /\ query = None
  /\ \E q \in Queries \cup Reordered : FindFacetMatchCall(q)

SpecFacet == Init /\ [][Lookup]_vars

----------------------------------------------------------------------------
(* The claims *)

ErrorResult ==
  [response |-> "Please enter a valid question.", source |-> "error",
   confidence |-> None]

\* A text with nothing in it but blanks, tabs, newlines and carriage returns.
OnlyWhitespace(s) == \A i \in 1..Len(s) : SubSeq(s, i, i) \in {" ", "\t", "\n", "\r"}

\* C1: a respond call whose query is empty once its surrounding whitespace
\* is removed returns the fixed error text with source "error" and no
\* confidence, invokes neither the facet matcher, nor the encoder, nor the
\* classifier, nor the LLM, and leaves every rotation cursor where it was.
C1_EmptyQueryIsError ==
  [][(result' # None /\ OnlyWhitespace(query'[1])) =>
       /\ result' = Some(ErrorResult)
       /\ trace' = <<>>
       /\ facet_found' = None /\ score' = None /\ intent' = None /\ reply' = None
       /\ response_counters' = response_counters
       /\ classified' = classified]_vars

\* A whitespace-only query of tabs and newlines answered with the error
\* result on an agent whose greeting cursor had already moved.
C1_Witness ==
  /\ query = Some(" \t\n")
  /\ result = Some(ErrorResult)
  /\ response_counters["greeting"] = 1

\* The answer respond gives when facet phrase number i of FACET_KEYS is in
\* the lowercased query.
FacetResult(i) ==
  [response |-> FACET_MAP[FACET_KEYS[i]], source |-> "predefined",
   confidence |-> Some(FACET_CONFIDENCE)]

FacetsIn(query_lower) ==
  {i \in 1..Len(FACET_KEYS) : Contains(FACET_KEYS[i], query_lower)}

AnswersEveryFacet(hits) == \A i \in hits : result = Some(FacetResult(i))

AnswersFirstFacet(hits) ==
  hits # {} =>
    /\ result = Some(FacetResult(CHOOSE i \in hits : \A j \in hits : i <= j))
    /\ trace = <<"facet">>
    /\ score = None

\* C2 as the specification states it: a query that contains facet phrase p
\* is answered with the answer of the topic that registered p, whatever
\* other facet phrases it contains.
C2_AnyContainedFacet ==
  result # None => AnswersEveryFacet(FacetsIn(Lower(query[1])))

\* C2: a query whose lowercased text contains a registered facet phrase is
\* answered with source "predefined" and confidence 0.85, without the
\* encoder being consulted, and the answer is that of the phrase registered
\* first, in load order, among the facet phrases the query contains.
C2_FirstContainedFacet ==
  result # None => AnswersFirstFacet(FacetsIn(Lower(query[1])))

\* A query that contains "post payments", a facet phrase of PHIL, and after
\* it "process claims", a facet phrase of CAM registered earlier: it is
\* answered with CAM's answer.
C2_Witness ==
  /\ query = Some("POST PAYMENTS process claims")
  /\ result # None
  /\ result[1].response = PREDEFINED_QA[2].answer
  /\ result[1].confidence = Some(FACET_CONFIDENCE)

TopicQuestions(t) ==
  {PREDEFINED_QA[t].question} \cup
  {PREDEFINED_QA[t].variations[k] : k \in 1..Len(PREDEFINED_QA[t].variations)}

\* C3: a query equal to the main question or to a variation of topic T is
\* answered with the answer of T.
C3_StoredQuestionOwnAnswer ==
  \A t \in 1..Len(PREDEFINED_QA) :
    (result # None /\ query[1] \in TopicQuestions(t)) =>
      result[1].response = PREDEFINED_QA[t].answer

\* C4: a query equal to a stored main question or variation is answered
\* with source "predefined".
C4_StoredQuestionPredefined ==
  \A t \in 1..Len(PREDEFINED_QA) :
    (result # None /\ query[1] \in TopicQuestions(t)) =>
      result[1].source = "predefined"

\* A stored question no facet catches, answered by the embedding check on
\* its similarity to itself.
C4_Witness ==
  /\ query = Some("What is EVA?")
  /\ result # None
  /\ result[1].source = "predefined"
  /\ trace = <<"facet", "embedding">>
  /\ score = Some(MaxScore)

\* The seven intents with their pools, as the specification lists them.
TemplatePool(I) ==
  CASE I = "greeting"       -> GREETING_RESPONSES
    [] I = "help"           -> HELP_RESPONSES
    [] I = "farewell"       -> FAREWELL_RESPONSES
    [] I = "gratitude"      -> GRATITUDE_RESPONSES
    [] I = "acknowledgment" -> ACKNOWLEDGMENT_RESPONSES
    [] I = "confusion"      -> CONFUSION_RESPONSES
    [] I = "unknown"        -> UNKNOWN_RESPONSES

\* The label of intent I: "generic-" and the intent, but for acknowledgment.
RegisteredLabel(I) == IF I = "acknowledgment" THEN "generic-ack" ELSE "generic-" \o I

\* Template number n of the rotation of I, counted from 1.
NthTemplate(I, n) == TemplatePool(I)[((n - 1) % Len(TemplatePool(I))) + 1]

ReachedGeneric ==
  result # None /\ trace # <<>> /\ trace[Len(trace)] = "generic"

\* The last call consulted the LLM and got a text that is not empty.
LLMAnswered ==
  /\ reply # None
  /\ ~reply[1].raised
  /\ Truthy(reply[1].content)

InStreak == result # None /\ intent # None /\ Calls = classified[intent[1]]

\* C5 as the specification states it: the i-th of N consecutive calls of
\* intent I on a fresh agent returns templates[(i-1) % K], for each of the
\* seven intents and whether or not an LLM is configured.
C5_EveryCallRotates ==
  InStreak => result[1].response = NthTemplate(intent[1], classified[intent[1]])

\* C5: in a streak of calls of intent I on a fresh agent, the n-th call
\* that ends in the generic fallback returns templates[(n-1) % K]; every
\* call of the streak ends there unless I is unknown and an LLM is
\* configured, and a call the LLM answers returns the LLM's text and leaves
\* the cursor where it was.
C5_GenericCallsRotate ==
  InStreak =>
    /\ ReachedGeneric =>
         /\ result[1].response =
              NthTemplate(intent[1], returned[RegisteredLabel(intent[1])])
         /\ response_counters[intent[1]] = returned[RegisteredLabel(intent[1])]
    /\ (intent[1] # "unknown" \/ ~openai_enabled) =>
         /\ ReachedGeneric
         /\ returned[RegisteredLabel(intent[1])] = classified[intent[1]]
    /\ ~ReachedGeneric =>
         /\ intent[1] = "unknown" /\ openai_enabled /\ LLMAnswered
         /\ result[1] = [response |-> reply[1].content[1], source |-> "llm",
                         confidence |-> None]
         /\ response_counters["unknown"] = returned["generic-unknown"]

\* The seventh help call of a streak, back at the first of the six help
\* templates.
C5_Witness ==
  /\ InStreak
  /\ intent = Some("help")
  /\ classified["help"] = Len(HELP_RESPONSES) + 1
  /\ result[1].response = HELP_RESPONSES[1]

\* C6 as the specification states it: a call that ends in the generic
\* fallback with intent L returns source "generic-" followed by L, and no
\* confidence.
C6_LabelIsIntentName ==
  ReachedGeneric =>
    /\ result[1].source = "generic-" \o intent[1]
    /\ result[1].confidence = None

\* C6: a call that ends in the generic fallback with intent L returns no
\* confidence and the source registered for L, which is "generic-" followed
\* by L for six intents and "generic-ack" for acknowledgment.
C6_LabelIsRegistered ==
  ReachedGeneric =>
    /\ result[1].source = RegisteredLabel(intent[1])
    /\ result[1].confidence = None

\* An acknowledgment answered from the bank.
C6_Witness ==
  /\ ReachedGeneric
  /\ intent = Some("acknowledgment")
  /\ result[1].source = "generic-ack"

\* The last call found no facet and no question at the threshold, and
\* classified the query.
FellToIntent ==
  /\ result # None
  /\ intent # None
  /\ facet_found = None
  /\ score # None
  /\ score[1] < SIMILARITY_THRESHOLD

FromPool(I) ==
  /\ \E k \in 1..Len(TemplatePool(I)) : result[1].response = TemplatePool(I)[k]
  /\ result[1].source = RegisteredLabel(I)

\* C7 as the specification states it: a query that matches no facet, is
\* below the threshold and has intent I is answered with a template of I's
\* pool and the label registered for I.
C7_AlwaysFromPool == FellToIntent => FromPool(intent[1])

\* C7: such a query is answered with a template of I's pool and the label
\* registered for I, unless I is unknown and a configured LLM answers with
\* a text that is not empty, which is then returned with source "llm".
C7_FromPoolUnlessLLM ==
  FellToIntent =>
    IF intent[1] = "unknown" /\ openai_enabled /\ LLMAnswered
    THEN result[1].response = reply[1].content[1] /\ result[1].source = "llm"
    ELSE FromPool(intent[1])

\* A farewell answered with a farewell template.
C7_Witness ==
  /\ FellToIntent
  /\ query = Some("bye")
  /\ intent = Some("farewell")
  /\ result[1].source = "generic-farewell"
  /\ \E k \in 1..Len(FAREWELL_RESPONSES) : result[1].response = FAREWELL_RESPONSES[k]

\* The rules of the classifier in the order the specification gives them.
RuleOrder ==
  <<"help", "greeting", "farewell", "gratitude", "acknowledgment", "confusion">>

Elements(list) == {list[k] : k \in 1..Len(list)}

HasPhrase(phrases, text) == \E phrase \in phrases : Contains(phrase, text)

\* Whether the trigger of a rule matches the lowercased, trimmed text.
Trigger(rule, text, words) ==
  CASE rule = "help"           -> HasPhrase(Elements(help_keywords), text)
    [] rule = "greeting"       -> \/ words \cap Elements(greeting_words) # {}
                                  \/ HasPhrase(Elements(time_greetings), text)
    [] rule = "farewell"       -> \/ words \cap Elements(farewell_words) # {}
                                  \/ words \cap {"exit", "quit"} # {}
                                  \/ HasPhrase({"see you"}, text)
    [] rule = "gratitude"      -> words \cap Elements(gratitude_words) # {}
    [] rule = "acknowledgment" -> words \cap Elements(ack_words) # {}
    [] rule = "confusion"      -> \/ words \cap {"what", "huh"} # {}
                                  \/ HasPhrase({"don't understand", "dont understand"}, text)

Fired(text, words) == {k \in 1..Len(RuleOrder) : Trigger(RuleOrder[k], text, words)}

FirstFired(fired) ==
  IF fired = {} THEN "unknown"
  ELSE RuleOrder[CHOOSE k \in fired : \A j \in fired : k <= j]

LabelOfText(text) == FirstFired(Fired(text, Split(text)))

Classified == intent # None /\ trace = <<"intent">>

\* C8: the classifier gives every query exactly one of the seven labels:
\* the label of the first rule, in the order help, greeting, farewell,
\* gratitude, acknowledgment, confusion, whose trigger matches the
\* lowercased, trimmed query, and unknown when no trigger matches.
C8_FirstMatchingRule ==
  Classified =>
    /\ intent[1] \in Intents
    /\ intent[1] = LabelOfText(Lower(Strip(query[1])))

\* A query on which the triggers of two rules match, gratitude in the text
\* before farewell, labelled with the rule that is earlier in the order.
C8_Witness ==
  /\ Classified
  /\ query = Some("thanks bye")
  /\ intent = Some("farewell")

BothHelpAndGreeting(text, words) ==
  /\ Trigger("help", text, words)
  /\ Trigger("greeting", text, words)

GreetsAndAsksHelp(text) == BothHelpAndGreeting(text, Split(text))

\* C9: a query that contains both a help phrase and a greeting word is
\* classified as help, never as greeting.
C9_HelpBeforeGreeting ==
  (Classified /\ GreetsAndAsksHelp(Lower(Strip(query[1])))) => intent = Some("help")

\* A greeting word followed by a help phrase of several words.
C9_Witness ==
  /\ Classified
  /\ query = Some("Hello what can you do")
  /\ intent = Some("help")

LLMInvoked == \E k \in 1..Len(trace) : trace[k] = "llm"

\* C10: the LLM is invoked only in a call in which the facet check found
\* nothing, the best similarity is below the threshold, the intent is
\* unknown and an LLM is configured; in every other call it is not invoked,
\* and a result of source "llm" comes from an invocation only.
C10_LLMLastResort ==
  result # None =>
    /\ LLMInvoked =>
         /\ facet_found = None
         /\ score # None /\ score[1] < SIMILARITY_THRESHOLD
         /\ intent = Some("unknown")
         /\ openai_enabled /\ openai_client # None
    /\ ~LLMInvoked => reply = None
    /\ result[1].source = "llm" => LLMInvoked /\ LLMAnswered

\* The LLM invoked for an unknown query and its text returned.
C10_Witness ==
  /\ result # None
  /\ LLMInvoked
  /\ query = Some("weather")
  /\ result[1].source = "llm"

\* What an agent with no LLM returns for an unknown query at the cursors
\* as they are.
NextUnknown ==
  [response |-> NthTemplate("unknown", response_counters["unknown"] + 1),
   source |-> "generic-unknown", confidence |-> None]

\* C11: when the LLM call raises or returns no content or empty content,
\* respond returns what it returns with no LLM configured: the next
\* template of the unknown pool with source "generic-unknown" and no
\* confidence, never an error, and the unknown cursor advances by one.
C11_LLMFailureIsSilent ==
  [][(LLMInvoked' /\ ~LLMAnswered') =>
       /\ result' = Some(NextUnknown)
       /\ response_counters' = [response_counters EXCEPT !["unknown"] = @ + 1]]_vars

\* The second failing LLM call of a session, an exception this time,
\* answered with the second template of the unknown pool.
C11_Witness ==
  /\ LLMInvoked
  /\ reply[1].raised
  /\ result # None
  /\ result[1].response = UNKNOWN_RESPONSES[2]
  /\ response_counters["unknown"] = 2

\* C12: when the LLM is consulted and returns content that is not empty,
\* respond returns that content with source "llm" and no confidence, and
\* the generic fallback is not entered: no cursor moves.
C12_LLMAnswerIsTerminal ==
  [][(LLMInvoked' /\ LLMAnswered') =>
       /\ result' = Some([response |-> reply'[1].content[1], source |-> "llm",
                          confidence |-> None])
       /\ \A k \in 1..Len(trace') : trace'[k] # "generic"
       /\ response_counters' = response_counters]_vars

\* The LLM answering after an earlier call of the session had fallen
\* through to the unknown pool.
C12_Witness ==
  /\ LLMInvoked
  /\ LLMAnswered
  /\ result # None
  /\ result[1].source = "llm"
  /\ response_counters["unknown"] = 1

\* The runs of stages a call can make, from the shortest: the empty-input
\* return of Start, then a return of the facet check, of the embedding
\* check, of the LLM fallback and of the generic fallback, the last without
\* or with the LLM consulted before it.
StageRuns ==
  {<<>>,
   <<"facet">>,
   <<"facet", "embedding">>,
   <<"facet", "embedding", "intent", "llm">>,
   <<"facet", "embedding", "intent", "generic">>,
   <<"facet", "embedding", "intent", "llm", "generic">>}

GenericLabels == {RegisteredLabel(I) : I \in Intents}

\* The source a result has when the run of stages ended where it did.
SourceFits(run, source) ==
  CASE run = <<>>                    -> source = "error"
    [] run[Len(run)] = "facet"     -> source = "predefined"
    [] run[Len(run)] = "embedding" -> source = "predefined"
    [] run[Len(run)] = "llm"       -> source = "llm"
    [] run[Len(run)] = "generic"   -> source \in GenericLabels
    [] OTHER                         -> FALSE

\* Every stage before the last of the run produced nothing.
EarlierStagesEmpty(q) ==
  /\ Len(trace) >= 1 => ~OnlyWhitespace(q)
  /\ Len(trace) >= 2 => facet_found = None
  /\ Len(trace) >= 3 => score # None /\ score[1] < SIMILARITY_THRESHOLD
  /\ (Len(trace) >= 5 \/ (LLMInvoked /\ trace[Len(trace)] = "generic")) => ~LLMAnswered

\* The last stage of the run did produce the result.
LastStageProduced(q) ==
  /\ trace = <<>> => OnlyWhitespace(q)
  /\ trace = <<"facet">> => facet_found = Some(result[1].response)
  /\ trace = <<"facet", "embedding">> =>
       score # None /\ score[1] >= SIMILARITY_THRESHOLD

\* C13: every respond call returns exactly one result, after a run of
\* stages in the order facet check, embedding check, intent classification,
\* LLM fallback (if it applies), generic fallback, that stops at the first
\* stage that produces a result: the stages before it produced none, and no
\* stage after it is run.
C13_CascadeOrder ==
  result # None =>
    /\ trace \in StageRuns
    /\ SourceFits(trace, result[1].source)
    /\ EarlierStagesEmpty(query[1])
    /\ LastStageProduced(query[1])
    /\ Calls = 1

\* A call that went through every stage: the LLM was consulted, gave
\* nothing, and the generic fallback answered.
C13_Witness ==
  /\ result # None
  /\ trace = <<"facet", "embedding", "intent", "llm", "generic">>
  /\ result[1].source = "generic-unknown"

\* C14: for every query that is not empty once trimmed, whatever the LLM
\* does, respond returns a result whose source is not "error" and whose
\* text is not empty; an empty query is the only one reported as an error.
C14_OnlyEmptyInputIsError ==
  result # None =>
    /\ ~OnlyWhitespace(query[1]) =>
         result[1].source # "error" /\ result[1].response # ""
    /\ result[1].source = "error" => OnlyWhitespace(query[1])

\* The LLM returning an empty text for a query that is not empty, and the
\* caller getting a template of the unknown pool.
C14_Witness ==
  /\ result # None
  /\ query = Some("weather")
  /\ LLMInvoked
  /\ reply[1].content = Some("")
  /\ result[1].source = "generic-unknown"
  /\ result[1].response # ""

\* The names of the catalog topics, in lower case.
TopicNames == {"eva", "cam", "phil", "thoughtful", "agent"}

\* An out-of-domain question: a question off the topic that, as C15
\* requires, names no catalog topic, contains no registered facet phrase
\* and has not reached the embedding threshold.
OutOfDomain(text) ==
  /\ query[1] \in OffTopic
  /\ ~HasPhrase(TopicNames, text)
  /\ FacetsIn(text) = {}
  /\ score = None \/ score[1] < SIMILARITY_THRESHOLD

\* C15: with no LLM configured, an out-of-domain question (one that names
\* no catalog topic, contains no facet phrase and is below the embedding
\* threshold) is never answered with source "predefined" or "llm".
C15_OutOfDomainNeverPredefined ==
  (result # None /\ ~openai_enabled /\ OutOfDomain(Lower(query[1]))) =>
    result[1].source \notin {"predefined", "llm"}

\* What the contract says of the confidence of a result.
ConfidenceContract ==
  /\ result[1].confidence # None <=> result[1].source = "predefined"
  /\ trace = <<"facet">> => result[1].confidence = Some(FACET_CONFIDENCE)
  /\ trace = <<"facet", "embedding">> =>
       /\ result[1].confidence = score
       /\ score[1] >= SIMILARITY_THRESHOLD

\* C16 as the specification states it: the source of every result is
\* predefined, llm, error or "generic-" followed by one of the seven intent
\* labels, and the confidence is as the contract says.
C16_SourceIsIntentName ==
  result # None =>
    /\ result[1].source \in
         {"predefined", "llm", "error"} \cup {"generic-" \o I : I \in Intents}
    /\ ConfidenceContract

\* C16: the source of every result is predefined, llm, error or one of the
\* seven generic labels (generic-ack for acknowledgment, "generic-" and the
\* intent for the other six); the confidence is there exactly when the
\* source is predefined, is 0.85 when the facet check produced the result,
\* and is the similarity score, at least 0.55, when the embedding check did.
C16_OutputContract ==
  result # None =>
    /\ result[1].source \in {"predefined", "llm", "error"} \cup GenericLabels
    /\ ConfidenceContract

\* A result of the embedding check with a score at the threshold exactly.
C16_Witness ==
  /\ result # None
  /\ trace = <<"facet", "embedding">>
  /\ result[1].source = "predefined"
  /\ result[1].confidence = Some(SIMILARITY_THRESHOLD)

\* C17: a label with no registered bank, dispatched to the response bank,
\* gets the next template of the unknown pool and a source derived from the
\* requested label, "generic-" followed by it, not "generic-unknown".
C17_UnregisteredKeepsItsLabel ==
  (dispatched # None /\ intent[1] \notin Intents) =>
    /\ dispatched[1][1] = NthTemplate("unknown", response_counters["unknown"])
    /\ dispatched[1][2] = "generic-" \o intent[1]

\* C18: when two calls run concurrently on one agent and both reach the
\* generic fallback for the same intent, no update of the cursor is lost,
\* it ends advanced by two, and the two calls return two different
\* consecutive templates.
C18_NoLostUpdate ==
  (/\ threads[1].pc = "done"
   /\ threads[2].pc = "done"
   /\ threads[1].intent = threads[2].intent) =>
    /\ response_counters[threads[1].intent[1]] = 2
    /\ threads[1].response # threads[2].response

C20_OnlyCursorsChange ==
  [][/\ predefined_embeddings' = predefined_embeddings
     /\ predefined_embeddings' = QUESTIONS
     /\ openai_client' = openai_client
     /\ openai_enabled' = openai_enabled
     /\ \/ response_counters' = response_counters
        \/ \E I \in Intents :
             response_counters' = [response_counters EXCEPT ![I] = @ + 1]]_vars

\* A call in which the LLM raised and the unknown cursor moved, on an
\* agent whose LLM is still configured and whose embeddings are in place.
C20_Witness ==
  /\ result # None
  /\ LLMInvoked
  /\ reply[1].raised
  /\ response_counters["unknown"] = 1
  /\ openai_enabled
  /\ openai_client # None
  /\ predefined_embeddings = QUESTIONS

\* The largest similarity of a vector, and the indexes that hold it.
TopScore(v) == CHOOSE x \in {v[i] : i \in DOMAIN v} : \A i \in DOMAIN v : v[i] <= x

TopIndexes(v) == {i \in DOMAIN v : v[i] = TopScore(v)}

Smallest(indexes) == CHOOSE i \in indexes : \A j \in indexes : i <= j

\* C21: _find_best_match returns the stored question at the arg-max
\* similarity together with its score if and only if the maximum score is
\* at least 0.55, a score equal to the threshold included; otherwise it
\* returns no question together with the maximum score; of several stored
\* questions that tie for the maximum the one with the smallest index is
\* returned.
C21_ThresholdAndStableArgmax ==
  matched # None =>
    LET v == matched[1].similarities
        pair == matched[1].returned
    IN /\ pair[2] = TopScore(v)
       /\ (pair[1] # None) <=> (TopScore(v) >= 55)
       /\ pair[1] # None => pair[1] = Some(QUESTIONS[Smallest(TopIndexes(v))])

\* Two questions of different topics tie at exactly 0.55, and the one
\* stored first is returned.
C21_Witness ==
  /\ matched # None
  /\ TopScore(matched[1].similarities) = 55
  /\ Cardinality(TopIndexes(matched[1].similarities)) = 2
  /\ \E i, j \in TopIndexes(matched[1].similarities) :
       /\ i < j
       /\ ANSWER_MAP[QUESTIONS[i]] # ANSWER_MAP[QUESTIONS[j]]
       /\ matched[1].returned = <<Some(QUESTIONS[i]), 55>>

\* The position in load order of a facet phrase: topics in the order of
\* PREDEFINED_QA, and the facets of a topic in the order it lists them.
LoadOrder ==
  Flatten([t \in 1..Len(PREDEFINED_QA) |->
             [k \in 1..Len(PREDEFINED_QA[t].facets) |->
                [topic |-> t, phrase |-> PREDEFINED_QA[t].facets[k]]]])

ContainedIn(text) == {n \in 1..Len(LoadOrder) : Contains(LoadOrder[n].phrase, text)}

\* C22: when several registered facet phrases occur as substrings of the
\* lowercased query, _find_facet_match returns the answer of the phrase
\* that comes first in load order (topic order, then facet order within
\* the topic), whatever the lengths of the phrases and their positions in
\* the query, and the word-overlap pass is not executed.
C22_FirstInLoadOrder ==
  looked_up # None =>
    LET hits == ContainedIn(Lower(query[1]))
    IN hits # {} =>
         /\ looked_up[1].answer =
              Some(PREDEFINED_QA[LoadOrder[Smallest(hits)].topic].answer)
         /\ looked_up[1].passes = <<"substring">>

\* A query with PHIL's "post payments" ahead of CAM's longer "process
\* claims": CAM's answer is returned by the substring pass.
C22_Witness ==
  /\ looked_up # None
  /\ query = Some("POST PAYMENTS process claims")
  /\ Cardinality(ContainedIn(Lower(query[1]))) = 2
  /\ looked_up[1].answer = Some(PREDEFINED_QA[2].answer)
  /\ looked_up[1].passes = <<"substring">>

\* The number of words a facet phrase shares with a set of words.
Shared(n, words) == Cardinality(words \cap Split(LoadOrder[n].phrase))

Qualifying(words) == {n \in 1..Len(LoadOrder) : Shared(n, words) >= 2}

\* The qualifying facet with the largest overlap, the earliest in load
\* order among equal overlaps.
BestOf(qualifying, words) ==
  CHOOSE n \in qualifying :
    \A m \in qualifying :
      \/ Shared(m, words) < Shared(n, words)
      \/ Shared(m, words) = Shared(n, words) /\ n <= m

OverlapAnswer(qualifying, words) ==
  IF qualifying = {} THEN None
  ELSE Some(PREDEFINED_QA[LoadOrder[BestOf(qualifying, words)].topic].answer)

\* C23: the word-overlap pass runs only when no facet phrase is a
\* substring of the query; a facet qualifies only if at least 2 of its
\* whitespace-split words are in the query's lowercase word set, so a
\* one-word facet never matches in this pass; the answer is that of the
\* qualifying facet with the largest overlap, the earliest in load order
\* among equal overlaps, and there is no result when no facet qualifies.
C23_LargestOverlapEarliest ==
  looked_up # None =>
    /\ ("overlap" \in {looked_up[1].passes[k] : k \in DOMAIN looked_up[1].passes})
         <=> (ContainedIn(Lower(query[1])) = {})
    /\ ContainedIn(Lower(query[1])) = {} =>
         looked_up[1].answer =
           OverlapAnswer(Qualifying(Split(Lower(query[1]))), Split(Lower(query[1])))
    /\ \A n \in 1..Len(LoadOrder) :
         Cardinality(Split(LoadOrder[n].phrase)) = 1 =>
           n \notin Qualifying(Split(Lower(query[1])))

\* CAM's "process claims" and PHIL's "post payments" both share two words
\* with the query and neither is a substring of it: CAM's answer, the
\* earlier, is returned by the overlap pass.
C23_Witness ==
  /\ looked_up # None
  /\ query = Some("claims process payments post")
  /\ looked_up[1].passes = <<"substring", "overlap">>
  /\ Cardinality(Qualifying(Split(Lower(query[1])))) = 2
  /\ looked_up[1].answer = Some(PREDEFINED_QA[2].answer)

\* The result of the call that just returned is a generic one.
GenericSource(source) == source \notin {"error", "predefined", "llm"}

\* C24: a respond call that ends in the generic fallback for intent I
\* increases I's cursor by exactly 1 and leaves the six other cursors
\* unchanged; a call that returns source error, predefined or llm leaves
\* all seven unchanged.  Hence the template a generic call of I returns is
\* the one after the template of the previous generic call of I, whatever
\* calls came in between.
C24_CursorFrame ==
  [][result' # None =>
       IF GenericSource(result'[1].source)
       THEN /\ intent' # None
            /\ response_counters' =
                 [response_counters EXCEPT ![intent'[1]] = @ + 1]
            /\ result'[1].response =
                 NthTemplate(intent'[1], returned'[result'[1].source])
       ELSE response_counters' = response_counters]_vars

\* The second greeting of a session, with a call of another intent between
\* the two: it gets the second greeting template.
C24_Witness ==
  /\ result # None
  /\ result[1].source = "generic-greeting"
  /\ result[1].response = GREETING_RESPONSES[2]
  /\ Calls = 3
  /\ response_counters["greeting"] = 2
  /\ \E I \in Intents \ {"greeting"} : response_counters[I] = 1

\* The calls so far that returned a generic source.
GenericCalls == Calls - returned["error"] - returned["predefined"] - returned["llm"]

\* C25: in every reachable state of an agent each cursor is a non-negative
\* integer and equals the number of completed respond calls that returned
\* its intent's generic source, the seven cursors sum to the number of
\* completed calls with a generic source, and no step decreases or resets
\* a cursor.
C25_CursorsCountGenericCalls ==
  /\ [](/\ \A I \in Intents :
            /\ response_counters[I] \in Nat
            /\ response_counters[I] = returned[RegisteredLabel(I)]
         /\ DOMAIN response_counters = Intents
         /\ SumOver(response_counters, Intents) = GenericCalls)
  /\ [][\A I \in Intents : response_counters'[I] >= response_counters[I]]_vars

\* An agent whose help cursor has gone past the size of the help pool.
C25_Witness ==
  /\ response_counters["help"] > Len(HELP_RESPONSES)
  /\ returned["generic-help"] = response_counters["help"]
  /\ result # None
  /\ result[1].response = HELP_RESPONSES[response_counters["help"] - Len(HELP_RESPONSES)]

\* The cursors of agent j of the process, now and after the step.
CursorsOf(j) ==
  IF agents[j] = agents[current] THEN response_counters ELSE dicts[agents[j]]

CursorsOfNext(j) ==
  IF agents'[j] = agents'[current'] THEN response_counters' ELSE dicts'[agents'[j]]

\* C26: rotation cursors are per agent instance: every new agent starts
\* with all seven cursors at 0, and a respond call on one agent never
\* changes the cursors of another agent of the same process; nor does
\* the construction of an agent change those of the agents there are.
C26_CursorsPerInstance ==
  [][/\ Len(agents') > Len(agents) =>
          /\ CursorsOfNext(Len(agents')) = [I \in Intents |-> 0]
          /\ \A j \in 1..Len(agents) : CursorsOfNext(j) = CursorsOf(j)
     /\ Calls' # Calls =>
          \A j \in 1..Len(agents) :
            j # current => CursorsOfNext(j) = CursorsOf(j)]_vars

\* Two agents: the first has given two greetings, then the second, asked
\* for the first time, gives the first greeting template.
C26_Witness ==
  /\ Len(agents) = 2
  /\ current = 2
  /\ CursorsOf(1)["greeting"] = 2
  /\ CursorsOf(2)["greeting"] = 1
  /\ result # None
  /\ result[1].response = GREETING_RESPONSES[1]

\* The text holds the keyword as a whole word or as a phrase of whole words.
HoldsKeyword(k, text) == Contains(" " \o k \o " ", " " \o text \o " ")

\* No rule ahead of the rule of intent I matches the text.
NoEarlierRule(I, text, words) ==
  \A j \in 1..Len(RuleOrder) :
    (\E i \in (j + 1)..Len(RuleOrder) : RuleOrder[i] = I) =>
      ~Trigger(RuleOrder[j], text, words)

\* C27: the classifier honours the keyword table of the data module: a
\* query that consists of a keyword listed for intent I in INTENT_KEYWORDS,
\* or holds it as a whole word or phrase, and matches no rule of higher
\* priority than I, is classified as I; so every confusion keyword, "what",
\* "huh", "confused", "don't understand" and "dont understand", gives
\* confusion.
C27_KeywordTableHonoured ==
  Classified =>
    \A I \in DOMAIN INTENT_KEYWORDS :
      \A n \in 1..Len(INTENT_KEYWORDS[I]) :
        (/\ HoldsKeyword(INTENT_KEYWORDS[I][n], Strip(Lower(query[1])))
         /\ NoEarlierRule(I, Strip(Lower(query[1])), Split(Strip(Lower(query[1]))))) =>
          intent = Some(I)

\* The call that just returned took the same facet decision as the earlier
\* call with the query r, and gave the same label if both were labelled.
SameDecisions(r) ==
  /\ facet_found' = decided[r].facet
  /\ (intent' # None /\ decided[r].intent # None) => intent' = decided[r].intent

\* One query is the other in capitals or padded with blanks.
Respelled(a, b) ==
  \/ a = Upper(b)
  \/ b = Upper(a)
  \/ a = "  " \o b \o " "
  \/ b = "  " \o a \o " "

\* C28: facet lookup and intent classification are invariant under letter
\* case and under leading or trailing whitespace: for every query q,
\* respond(q), respond(q in capitals) and respond(q padded with spaces)
\* take the same facet decision and classify into the same intent.
C28_CaseAndPaddingInvariant ==
  [][result' # None =>
       \A r \in DOMAIN decided :
         Respelled(r, query'[1]) => SameDecisions(r)]_vars

\* ASCII, Python's str.upper() of it, and whether lowering undoes the
\* raising of a text.
Ascii ==
  " \t\n?!.,'-0123456789" \o LowerLetters \o UpperLetters

IsAscii(s) == \A i \in 1..Len(s) : \E k \in 1..Len(Ascii) : Char(s, i) = Char(Ascii, k)

\* What the code does give: the same facet decision and, when both calls
\* get as far as the classifier, the same intent for the spellings of a
\* query of ASCII characters.
AsciiCaseAndPaddingInvariant ==
  [][result' # None =>
       \A r \in DOMAIN decided :
         (Respelled(r, query'[1]) /\ IsAscii(r) /\ IsAscii(query'[1])) =>
           SameDecisions(r)]_vars

\* A facet phrase in capitals after the same in small letters: CAM's
\* answer both times.
AsciiRespelled ==
  /\ query = Some("PROCESS CLAIMS")
  /\ "process claims" \in DOMAIN decided
  /\ facet_found = Some(PREDEFINED_QA[2].answer)
  /\ decided["process claims"].facet = facet_found

\* The conditions under which the LLM is to be enabled.
KeyUsable(key) ==
  /\ key # None
  /\ ~OnlyWhitespace(key[1])
  /\ key[1] # "your_openai_api_key_here"

ToBeEnabled(env) ==
  /\ env.OPENAI_AVAILABLE
  /\ KeyUsable(env.api_key)
  /\ ~env.constructor_raises

LowercasePhrase(key) ==
  /\ key # ""
  /\ \A i \in 1..Len(key) :
       \A u \in 1..Len(UpperLetters) : Char(key, i) # Char(UpperLetters, u)

\* The topics of a knowledge base that register the key, in any case.
Registering(kb, key) ==
  {t \in 1..Len(kb) : \E k \in 1..Len(kb[t].facets) : Lower(kb[t].facets[k]) = key}

Latest(topics) == CHOOSE t \in topics : \A u \in topics : u <= t

\* The index is the facet index of the knowledge base: lowercase keys,
\* every facet a key, and for every key the answer of the last topic that
\* registers it.
IndexOf(kb, index) ==
  /\ \A i \in 1..Len(index) :
       /\ LowercasePhrase(index[i].key)
       /\ \A j \in 1..Len(index) : index[j].key = index[i].key => j = i
       /\ Registering(kb, index[i].key) # {}
       /\ index[i].answer = kb[Latest(Registering(kb, index[i].key))].answer
  /\ \A t \in 1..Len(kb) :
       \A k \in 1..Len(kb[t].facets) :
         \E i \in 1..Len(index) : index[i].key = Lower(kb[t].facets[k])

\* FACET_MAP is the facet index of PREDEFINED_QA.
AgentIndexBuilt ==
  IndexOf(PREDEFINED_QA,
          [i \in 1..Len(FACET_KEYS) |->
             [key |-> FACET_KEYS[i], answer |-> FACET_MAP[FACET_KEYS[i]]]])

\* C30: after the facet index is built, every key is a non-empty lowercase
\* phrase, every facet of every topic is present as a key, and a phrase
\* registered by two topics maps to the answer of the topic that comes
\* last in load order.  This holds of FACET_MAP, the index of the agent,
\* and of the index the loop builds from any knowledge base.
C30_FacetIndexBuilt ==
  /\ AgentIndexBuilt
  /\ written = Len(FacetWritesOf(knowledge_base)) =>
       IndexOf(knowledge_base, facet_index)

\* The first topic registered "ROI" and the third "roi": the one key
\* "roi" stands where the first put it and has the third's answer.
C30_Witness ==
  /\ Len(knowledge_base) = 3
  /\ written = 3
  /\ knowledge_base[1].facets = <<"ROI">>
  /\ knowledge_base[2].facets = <<"save time">>
  /\ knowledge_base[3].facets = <<"roi">>
  /\ facet_index = <<[key |-> "roi", answer |-> 3], [key |-> "save time", answer |-> 2]>>

=============================================================================
